---- MODULE Spec2Model ----
(***************************************************************************)
(* web-share: a static HTTP file server (src/web-share.go).                *)
(*                                                                         *)
(* The model follows main() step by step (flag parsing, port validation,   *)
(* interface lookup, address construction, root directory validation,      *)
(* listening) and then the request handler returned by serveFrom().        *)
(* Go strings that the program inspects byte by byte (request URIs, the    *)
(* bound address) are sequences of byte values; strings it only passes     *)
(* around (messages, header values, flag values) are TLA+ strings.         *)
(***************************************************************************)
EXTENDS Integers, Sequences, FiniteSets, TLC

VARIABLES
    args,       \* the command line: what was given for -p, -i and -d
    env,        \* what the host answers: working directory, listen, files
    pc,         \* position of main()
    port,       \* var port uint   (web-share.go:52)
    itf,        \* var itf string  (web-share.go:51)
    dir,        \* var dir string  (web-share.go:51)
    addr,       \* var addr string (web-share.go:71), a byte sequence
    root,       \* root captured by the handler closure (web-share.go:143)
    listener,   \* TRUE while the listening socket is open
    exitCode,   \* process exit status, NoExit while the process runs
    stderr,     \* lines written to the error stream, in order
    steps,      \* startup steps completed so far, in order
    nreq,       \* number of requests handled so far
    req,        \* the request handled last
    resp,       \* the response written for it
    reqlog,     \* the lines the handler logged for it
    served,     \* which collaborator produced the response, and from what
    inflight    \* the handler invocations that run concurrently, by goroutine

vars == <<args, env, pc, port, itf, dir, addr, root, listener, exitCode,
          stderr, steps, nreq, req, resp, reqlog, served, inflight>>

----------------------------------------------------------------------------
(* Bounds of the model *)

\* requests handled in one run
MaxRequests == 2

\* length of the longest generated request URI beyond maxURI
MaxOver == 1

\* handler invocations that can be in progress at the same time
MaxInflight == 2

----------------------------------------------------------------------------
(* Program constants *)

defaultPort == 8080

maxURI == 500

\* 0xFFFF, the largest valid port
MaxPort == 65535

\* os.Exit(1) in die() and in log.Fatalln
DieExitCode == 1

\* gnuflag.CommandLine is an ExitOnError flag set: a parse error exits with 2
FlagExitCode == 2

\* faviconTS = time.Now() at process start, in seconds of an abstract clock
faviconTS == 2

\* len(favicon): only its being non-empty and the range tests depend on it
FaviconSize == 3

\* exitCode while the process is running
NoExit == 0 - 1

----------------------------------------------------------------------------
(* Byte strings *)

\* "/favicon.ico"
FaviconURI == <<47, 102, 97, 118, 105, 99, 111, 110, 46, 105, 99, 111>>

\* " ..."
Ellipsis == <<32, 46, 46, 46>>

RECURSIVE uintToString(_)
uintToString(val) ==
    IF val < 10 THEN <<48 + val>>
    ELSE uintToString(val \div 10) \o <<48 + (val % 10)>>

RECURSIVE JoinDots(_)
JoinDots(bs) ==
    IF Len(bs) = 1 THEN uintToString(bs[1])
    ELSE uintToString(bs[1]) \o <<46>> \o JoinDots(Tail(bs))

\* net.IP.String() of a 4-byte address: dotted decimal
IPString(ip4) == JoinDots(ip4)

----------------------------------------------------------------------------
(* The host: network interfaces and the file system *)

\* net.IP.To4(): a 4-byte address, or nil (<<>>) for an IPv6 address
To4(a) == IF a.kind = "ipnet" /\ Len(a.ip) = 4 THEN a.ip ELSE <<>>

V4(a, b, c, d) == [kind |-> "ipnet", ip |-> <<a, b, c, d>>]

V6 == [kind |-> "ipnet", ip |-> <<254, 128, 0, 0, 0, 0, 0, 0, 0, 0, 0, 0, 0, 0, 0, 1>>]

Other == [kind |-> "ipaddr", ip |-> <<10, 0, 0, 9>>]

\* The interface table of the host: net.InterfaceByName fails for a name
\* that is not in it.
Interfaces ==
    [lo     |-> [up |-> TRUE,  addrsOK |-> TRUE,  addrs |-> <<V4(127, 0, 0, 1), V6>>],
     eth0   |-> [up |-> TRUE,  addrsOK |-> TRUE,
                 addrs |-> <<V6, Other, V4(192, 168, 1, 7), V4(10, 0, 0, 5)>>],
     eth1   |-> [up |-> FALSE, addrsOK |-> TRUE,  addrs |-> <<V4(10, 1, 1, 1)>>],
     tun0   |-> [up |-> TRUE,  addrsOK |-> FALSE, addrs |-> <<>>],
     sit0   |-> [up |-> TRUE,  addrsOK |-> TRUE,  addrs |-> <<V6, Other>>],
     dummy0 |-> [up |-> TRUE,  addrsOK |-> TRUE,  addrs |-> <<>>]]

InterfaceNames == {"lo", "eth0", "eth1", "tun0", "sit0", "dummy0"}

\* Values of the -i flag: not given (""), a name unknown to the host, or a
\* name of the table.
ItfArgs == {"", "wlan9"} \cup InterfaceNames

\* The file system as os.Stat sees it.  abs: the path is already absolute.
Paths ==
    [cwd     |-> [abs |-> FALSE, full |-> "/home/u",         stat |-> "dir"],
     file    |-> [abs |-> FALSE, full |-> "/home/u/a.txt",   stat |-> "file"],
     missing |-> [abs |-> FALSE, full |-> "/home/u/missing", stat |-> "enoent"],
     pub     |-> [abs |-> TRUE,  full |-> "/srv/pub",        stat |-> "dir"],
     locked  |-> [abs |-> TRUE,  full |-> "/root/x",         stat |-> "eacces"]]

\* Values of the -d flag (cwd is the default ".")
DirArgs == {"cwd", "file", "missing", "pub", "locked"}

\* Values of the -p flag: not given, not an unsigned integer, or a number.
PortValues == {0, defaultPort, MaxPort, MaxPort + 1, 2000000000}

PortArgs ==
    {[kind |-> "absent", val |-> 0], [kind |-> "unparsable", val |-> 0]}
    \cup {[kind |-> "uint", val |-> v] : v \in PortValues}

Envs == [cwdOK : BOOLEAN, listenOK : BOOLEAN, realFavicon : BOOLEAN]

----------------------------------------------------------------------------
(* die() and the trace logger *)

NoErr == ""

\* One line on the error stream.  msg is the literal text, str and bytes are
\* what the caller concatenated to it (a name or path, a formatted number or
\* address), err is the text of the error value.
Line(prefix, msg, str, bytes, err) ==
    [prefix |-> prefix, msg |-> msg, str |-> str, bytes |-> bytes, err |-> err]

\* die(msg, err): the line written to the error stream.  The msg argument of
\* the source is msg with str and bytes appended; it is empty only when all
\* three are.
dieLine(msg, str, bytes, err) ==
    LET hasMsg == msg # "" \/ str # "" \/ bytes # <<>> IN
    IF hasMsg /\ err # NoErr THEN Line("ERROR: ", msg, str, bytes, err)
    ELSE IF hasMsg THEN Line("ERROR: ", msg, str, bytes, NoErr)
    ELSE IF err # NoErr THEN Line("ERROR: ", "", "", <<>>, err)
    ELSE Line("ERROR: ", "Unknown internal error", "", <<>>, NoErr)

\* die that ends the process with status 0
die_exitZero(msg, str, bytes, err, step) ==
    /\ stderr' = Append(stderr, dieLine(msg, str, bytes, err))
    /\ exitCode' = 0
    /\ pc' = "exited"
    /\ listener' = FALSE
    /\ steps' = Append(steps, step)

\* die(msg, err): write the line, then os.Exit(1).  The process is gone, so
\* whatever it had open is closed.
die(msg, str, bytes, err, step) ==
    /\ stderr' = Append(stderr, dieLine(msg, str, bytes, err))
    /\ exitCode' = DieExitCode
    /\ pc' = "exited"
    /\ listener' = FALSE
    /\ steps' = Append(steps, step)

\* trace.Println(what, ...) during startup
traceLine(what, str, bytes) == Line("", what, str, bytes, NoErr)

\* trace.Fatalln(err): Println followed by os.Exit(1)
Fatalln(err, step) ==
    /\ stderr' = Append(stderr, Line("", "", "", <<>>, err))
    /\ exitCode' = DieExitCode
    /\ pc' = "exited"
    /\ listener' = FALSE
    /\ steps' = Append(steps, step)

----------------------------------------------------------------------------
(* Startup: main() *)

NoRequest == [remote |-> "", method |-> "", uri |-> <<>>, range |-> "", ims |-> 0]

NoResponse == [status |-> 0, headers |-> [n \in {} |-> ""], body |-> "none"]

\* the goroutines the HTTP server runs the handler on
Slots == 1..MaxInflight

\* a goroutine that is not running the handler
IdleSlot ==
    [pc |-> "idle", req |-> NoRequest, headers |-> <<>>, uri |-> <<>>, log |-> <<>>]

Init ==
    /\ args \in [port : PortArgs, itf : ItfArgs, dir : DirArgs]
    /\ env \in Envs
    /\ pc = "parse"
    /\ port = 0
    /\ itf = ""
    /\ dir = ""
    /\ addr = <<>>
    /\ root = ""
    /\ listener = FALSE
    /\ exitCode = NoExit
    /\ stderr = <<>>
    /\ steps = <<>>
    /\ nreq = 0
    /\ req = NoRequest
    /\ resp = NoResponse
    /\ reqlog = <<>>
    /\ served = [by |-> "none", path |-> <<>>]
    /\ inflight = [s \in Slots |-> IdleSlot]

handlerVars == <<nreq, req, resp, reqlog, served, inflight>>

\* gnuflag.Parse(false): fills port, itf and dir from the command line, the
\* defaults standing in for flags not given.  A value that is not an
\* unsigned integer makes the flag set report the error and exit.
Parse ==
    /\ pc = "parse"
    /\ IF args.port.kind = "unparsable" THEN
          /\ stderr' = Append(stderr, Line("", "invalid value for flag -p", "", <<>>, "parse error"))
          /\ exitCode' = FlagExitCode
          /\ pc' = "exited"
          /\ steps' = Append(steps, "parse")
          /\ UNCHANGED <<port, itf, dir>>
       ELSE
          /\ port' = IF args.port.kind = "absent" THEN defaultPort ELSE args.port.val
          /\ itf' = args.itf
          /\ dir' = args.dir
          /\ pc' = "validatePort"
          /\ steps' = Append(steps, "parse")
          /\ UNCHANGED <<stderr, exitCode>>
    /\ UNCHANGED <<args, env, addr, root, listener>>
    /\ UNCHANGED handlerVars

\* InvalidPort with the upper limit off by one
InvalidPort_offByOne(p) == p = 0 \/ p > MaxPort + 1

\* if port == 0 || port > 0xFFFF { die(...) }
InvalidPort(p) == p = 0 \/ p > MaxPort

ValidatePort ==
    /\ pc = "validatePort"
    /\ IF InvalidPort(port) THEN
          die("Invalid port number: ", "", uintToString(port), NoErr, "validatePort")
       ELSE
          /\ pc' = "checkItf"
          /\ steps' = Append(steps, "validatePort")
          /\ UNCHANGED <<stderr, exitCode, listener>>
    /\ UNCHANGED <<args, env, port, itf, dir, addr, root>>
    /\ UNCHANGED handlerVars

\* if len(itf) == 0 { die(...) }
CheckItf ==
    /\ pc = "checkItf"
    /\ IF itf = "" THEN
          die("Network interface is not specified", "", <<>>, NoErr, "checkItf")
       ELSE
          /\ pc' = "findIP"
          /\ steps' = Append(steps, "checkItf")
          /\ UNCHANGED <<stderr, exitCode, listener>>
    /\ UNCHANGED <<args, env, port, itf, dir, addr, root>>
    /\ UNCHANGED handlerVars

\* the loop of findIP without the return inside it: the last match wins
RECURSIVE firstIPv4_lastWins(_)
firstIPv4_lastWins(addrs) ==
    IF addrs = <<>> THEN <<>>
    ELSE LET later == firstIPv4_lastWins(Tail(addrs)) IN
         IF later # <<>> THEN later
         ELSE IF To4(Head(addrs)) # <<>> THEN IPString(To4(Head(addrs)))
         ELSE <<>>

\* The loop of findIP: the first address of the list that is an *net.IPNet
\* with a 4-byte form, as a string; "" when there is none.
RECURSIVE firstIPv4(_)
firstIPv4(addrs) ==
    IF addrs = <<>> THEN <<>>
    ELSE IF To4(Head(addrs)) # <<>> THEN IPString(To4(Head(addrs)))
    ELSE firstIPv4(Tail(addrs))

\* findIP that ignores the error of net.InterfaceByName and goes on with an
\* interface that has the unspecified address
findIP_ignoreLookupError(name) ==
    IF name \notin InterfaceNames THEN
        [die |-> FALSE, msg |-> "", err |-> NoErr, ip |-> IPString(<<0, 0, 0, 0>>)]
    ELSE IF ~Interfaces[name].up THEN
        [die |-> TRUE, msg |-> "Interface is DOWN", err |-> NoErr, ip |-> <<>>]
    ELSE IF ~Interfaces[name].addrsOK THEN
        [die |-> TRUE, msg |-> "Cannot get interface address list", err |-> "addrs error", ip |-> <<>>]
    ELSE
        [die |-> FALSE, msg |-> "", err |-> NoErr, ip |-> firstIPv4(Interfaces[name].addrs)]

\* findIP(itf): "die" with the message and error, or the address found
findIP(name) ==
    IF name \notin InterfaceNames THEN
        [die |-> TRUE, msg |-> "Invalid interface name", err |-> "no such network interface", ip |-> <<>>]
    ELSE IF ~Interfaces[name].up THEN
        [die |-> TRUE, msg |-> "Interface is DOWN", err |-> NoErr, ip |-> <<>>]
    ELSE IF ~Interfaces[name].addrsOK THEN
        [die |-> TRUE, msg |-> "Cannot get interface address list", err |-> "addrs error", ip |-> <<>>]
    ELSE
        [die |-> FALSE, msg |-> "", err |-> NoErr, ip |-> firstIPv4(Interfaces[name].addrs)]

\* if addr = findIP(itf); len(addr) == 0 { die(...) }
FindIP ==
    /\ pc = "findIP"
    /\ LET r == findIP(itf) IN
       IF r.die THEN
          /\ die(r.msg, "", <<>>, r.err, "findIP")
          /\ UNCHANGED addr
       ELSE IF r.ip = <<>> THEN
          /\ die("Cannot find IPv4 address of ", itf, <<>>, NoErr, "findIP")
          /\ UNCHANGED addr
       ELSE
          /\ addr' = r.ip
          /\ pc' = "buildAddr"
          /\ steps' = Append(steps, "findIP")
          /\ UNCHANGED <<stderr, exitCode, listener>>
    /\ UNCHANGED <<args, env, port, itf, dir, root>>
    /\ UNCHANGED handlerVars

\* main that goes from the address straight to run(), with a handler built
\* without serveFrom's validation
BuildAddr_skipServeFrom ==
    /\ pc = "buildAddr"
    /\ addr' = addr \o <<58>> \o uintToString(port)
    /\ stderr' = Append(stderr, traceLine("Listening on", "", addr'))
    /\ pc' = "run"
    /\ steps' = Append(steps, "buildAddr")
    /\ UNCHANGED <<args, env, port, itf, dir, root, listener, exitCode>>
    /\ UNCHANGED handlerVars

\* addr += ":" + uintToString(port); trace.Println("Listening on", addr)
BuildAddr ==
    /\ pc = "buildAddr"
    /\ addr' = addr \o <<58>> \o uintToString(port)
    /\ stderr' = Append(stderr, traceLine("Listening on", "", addr'))
    /\ pc' = "serveFrom"
    /\ steps' = Append(steps, "buildAddr")
    /\ UNCHANGED <<args, env, port, itf, dir, root, listener, exitCode>>
    /\ UNCHANGED handlerVars

\* absPath without the IsDir test
absPath_noDirCheck(d, cwdOK) ==
    IF ~Paths[d].abs /\ ~cwdOK THEN
        [die |-> TRUE, msg |-> "Cannot build absolute pathname", str |-> "", err |-> "getwd error", root |-> ""]
    ELSE IF Paths[d].stat \in {"enoent", "eacces"} THEN
        [die |-> TRUE, msg |-> "", str |-> "", err |-> Paths[d].stat, root |-> ""]
    ELSE
        [die |-> FALSE, msg |-> "", str |-> "", err |-> NoErr, root |-> Paths[d].full]

\* absPath(dir): "die" with the message and error, or the absolute path
absPath(d, cwdOK) ==
    IF ~Paths[d].abs /\ ~cwdOK THEN
        [die |-> TRUE, msg |-> "Cannot build absolute pathname", str |-> "", err |-> "getwd error", root |-> ""]
    ELSE IF Paths[d].stat \in {"enoent", "eacces"} THEN
        [die |-> TRUE, msg |-> "", str |-> "", err |-> Paths[d].stat, root |-> ""]
    ELSE IF Paths[d].stat # "dir" THEN
        [die |-> TRUE, msg |-> "Not a directory: ", str |-> Paths[d].full, err |-> NoErr, root |-> ""]
    ELSE
        [die |-> FALSE, msg |-> "", str |-> "", err |-> NoErr, root |-> Paths[d].full]

\* serveFrom(dir), evaluated as the argument of run(): validates the root
\* directory and builds the handler
ServeFrom ==
    /\ pc = "serveFrom"
    /\ LET r == absPath(dir, env.cwdOK) IN
       IF r.die THEN
          /\ die(r.msg, r.str, <<>>, r.err, "serveFrom")
          /\ UNCHANGED root
       ELSE
          /\ root' = r.root
          /\ stderr' = Append(stderr, traceLine("Serving files from", r.root, <<>>))
          /\ pc' = "run"
          /\ steps' = Append(steps, "serveFrom")
          /\ UNCHANGED <<exitCode, listener>>
    /\ UNCHANGED <<args, env, port, itf, dir, addr>>
    /\ UNCHANGED handlerVars

\* run(addr, handler): srv.ListenAndServe() opens the listener and serves,
\* or returns the error, which main hands to trace.Fatalln
Run ==
    /\ pc = "run"
    /\ IF env.listenOK THEN
          /\ listener' = TRUE
          /\ pc' = "serving"
          /\ steps' = Append(steps, "run")
          /\ UNCHANGED <<stderr, exitCode>>
       ELSE
          Fatalln("listen error", "run")
    /\ UNCHANGED <<args, env, port, itf, dir, addr, root>>
    /\ UNCHANGED handlerVars

\* ListenAndServe returns while serving (the accept loop failed): Serve has
\* closed the listener, main hands the error to trace.Fatalln
ServeError ==
    /\ pc = "serving"
    /\ Fatalln("accept error", "serveError")
    /\ UNCHANGED <<args, env, port, itf, dir, addr, root>>
    /\ UNCHANGED handlerVars

----------------------------------------------------------------------------
(* Requests *)

ishex(c) == (c >= 48 /\ c <= 57) \/ (c >= 97 /\ c <= 102) \/ (c >= 65 /\ c <= 70)

unhex(c) ==
    IF c >= 48 /\ c <= 57 THEN c - 48
    ELSE IF c >= 97 /\ c <= 102 THEN c - 97 + 10
    ELSE IF c >= 65 /\ c <= 70 THEN c - 65 + 10
    ELSE 0

\* url.unescape, first pass: every '%' must be followed by two hex digits
\* (a hex digit is never '%', so every '%' of a valid string starts an
\* escape)
validEscapes(s) ==
    \A i \in 1..Len(s) :
        s[i] = 37 => (i + 2 <= Len(s) /\ ishex(s[i + 1]) /\ ishex(s[i + 2]))

\* url.unescape, second pass, for the byte at position i of a valid string:
\* an escape gives the byte it encodes, its two digits give nothing, '+'
\* gives a space in query mode, any other byte gives itself
unescapeAt(s, i, query) ==
    IF s[i] = 37 THEN <<16 * unhex(s[i + 1]) + unhex(s[i + 2])>>
    ELSE IF (i > 1 /\ s[i - 1] = 37) \/ (i > 2 /\ s[i - 2] = 37) THEN <<>>
    ELSE IF query /\ s[i] = 43 THEN <<32>>
    ELSE <<s[i]>>

\* the second pass over positions lo..hi, left to right
RECURSIVE unescapeRange(_, _, _, _)
unescapeRange(s, lo, hi, query) ==
    IF lo > hi THEN <<>>
    ELSE IF lo = hi THEN unescapeAt(s, lo, query)
    ELSE LET mid == (lo + hi) \div 2 IN
         unescapeRange(s, lo, mid, query) \o unescapeRange(s, mid + 1, hi, query)

\* url.unescape(s, mode): ok is FALSE for an EscapeError
unescape(s, query) ==
    IF validEscapes(s) THEN [ok |-> TRUE, val |-> unescapeRange(s, 1, Len(s), query)]
    ELSE [ok |-> FALSE, val |-> <<>>]

\* url.QueryUnescape(s)
QueryUnescape(s) == unescape(s, TRUE)

\* The part of a request URI before the first '?'
pathPart(s) ==
    IF \A i \in 1..Len(s) : s[i] # 63 THEN s
    ELSE LET q == CHOOSE i \in 1..Len(s) :
                      s[i] = 63 /\ \A j \in 1..(i - 1) : s[j] # 63
         IN SubSeq(s, 1, q - 1)

\* req.URL.Path, as the HTTP server parsed it from the request line: the
\* path part, unescaped in path mode
URLPath(uri) == unescape(pathPart(uri), FALSE)

\* shortenURI that cuts from maxURI bytes on
shortenURI_offByOne(uri) ==
    IF Len(uri) >= maxURI THEN SubSeq(uri, 1, maxURI) \o Ellipsis ELSE uri

shortenURI(uri) ==
    IF Len(uri) > maxURI THEN SubSeq(uri, 1, maxURI) \o Ellipsis ELSE uri

\* n bytes 'a'
Pad(n) == [i \in 1..n |-> 97]

ShortURIs ==
    { FaviconURI,                                   \* /favicon.ico
      FaviconURI \o <<63, 120>>,                    \* /favicon.ico?x
      <<47, 37, 54, 54>> \o Tail(Tail(FaviconURI)), \* /%66avicon.ico
      FaviconURI \o <<37, 51, 70, 120>>,            \* /favicon.ico%3Fx
      <<47>>,                                       \* /
      <<47, 97, 43, 98>>,                           \* /a+b
      <<47, 97, 63, 37, 122, 122>>,                 \* /a?%zz
      <<47, 63, 120, 61, 37>>,                      \* /?x=%
      FaviconURI \o <<63, 37, 52>>,                 \* /favicon.ico?%4
      <<47, 37, 122, 122>> }                        \* /%zz

\* URIs around the logging limit: /aaa... of maxURI .. maxURI+MaxOver bytes,
\* and one that is longer than the limit only while escaped (/%61aaa...)
LongURIs ==
    { <<47>> \o Pad(k) : k \in (maxURI - 1)..(maxURI - 1 + MaxOver) }
    \cup { <<47, 37, 54, 49>> \o Pad(maxURI - 2) }

RequestURIs == ShortURIs \cup LongURIs

Methods == {"GET", "HEAD"}

Ranges == {"", "bytes=0-", "bytes=1-", "bytes=9-"}

\* If-Modified-Since, in seconds of the abstract clock; 0: header not sent
IMSValues == 0..faviconTS

\* url.QueryUnescape and req.URL.Path of the URIs of the model, computed once
unescaped == [u \in RequestURIs |-> QueryUnescape(u)]

urlPath == [u \in RequestURIs |-> URLPath(u)]

\* The HTTP server parses the request line before it calls the handler and
\* answers a request whose path does not unescape by itself: the handler
\* sees only requests whose URL parsed.  The long URIs come as plain GETs.
Requests ==
    { r \in [remote : {"10.0.0.2:5000"}, method : Methods,
             uri : RequestURIs, range : Ranges, ims : IMSValues] :
        /\ urlPath[r.uri].ok
        /\ r.uri \in LongURIs => (r.method = "GET" /\ r.range = "" /\ r.ims = 0) }

----------------------------------------------------------------------------
(* Responses *)

HeaderNames == {"Server", "Content-Type", "X-Content-Type-Options",
                "Cache-Control", "Pragma", "Expires", "Last-Modified",
                "Content-Range"}

\* "" stands for a header that is not set
NoHeaders == [n \in HeaderNames |-> ""]

Set(h, name, value) == [h EXCEPT ![name] = value]

\* http.Error(resp, msg, code)
httpError(h, msg, code) ==
    [status |-> code,
     headers |-> Set(Set(h, "Content-Type", "text/plain; charset=utf-8"),
                     "X-Content-Type-Options", "nosniff"),
     body |-> msg]

\* First byte position of the one range of a Range header
rangeStart(rng) ==
    CASE rng = "bytes=0-" -> 0
      [] rng = "bytes=1-" -> 1
      [] rng = "bytes=9-" -> 9
      [] OTHER -> 0

\* http.ServeContent(resp, req, name, faviconTS, favicon): sets
\* Last-Modified; answers 304 without Content-Type when the content was not
\* modified since If-Modified-Since; answers 416 for a range that starts
\* past the end, 206 for a range, 200 otherwise; HEAD gets no body.
ServeContent(h, r) ==
    LET h1 == Set(h, "Last-Modified", "faviconTS") IN
    IF r.ims # 0 /\ faviconTS <= r.ims THEN
        [status |-> 304, headers |-> Set(h1, "Content-Type", ""), body |-> "none"]
    ELSE IF r.range = "" THEN
        [status |-> 200, headers |-> h1,
         body |-> IF r.method = "HEAD" THEN "none" ELSE "favicon"]
    ELSE IF rangeStart(r.range) >= FaviconSize THEN
        httpError(Set(h1, "Content-Range", "bytes */size"),
                  "invalid range", 416)
    ELSE
        [status |-> 206, headers |-> Set(h1, "Content-Range", r.range),
         body |-> IF r.method = "HEAD" THEN "none"
                  ELSE IF rangeStart(r.range) = 0 THEN "favicon"
                  ELSE "favicon-part"]

\* The paths that exist under the root directory
Files(e) == {<<47>>} \cup (IF e.realFavicon THEN {FaviconURI} ELSE {})

\* server.ServeHTTP(resp, req): the file server resolves req.URL.Path under
\* the root directory; path is the path it resolved
FileServer(h, r, e) ==
    LET p == urlPath[r.uri].val IN
    [path |-> p,
     resp |-> IF p \in Files(e) THEN
                  [status |-> 200, headers |-> h,
                   body |-> IF r.method = "HEAD" THEN "none" ELSE "file"]
              ELSE httpError(h, "404 page not found", 404)]

----------------------------------------------------------------------------
(* The handler returned by serveFrom() *)

\* trace.Println(req.RemoteAddr, req.Method, shortenURI(uri) [, rng])
requestLine(r, uri, extra) ==
    [kind |-> "request", remote |-> r.remote, method |-> r.method,
     uri |-> shortenURI(uri), extra |-> extra]

\* trace.Println(req.RemoteAddr, "Invalid URI:", err)
invalidLine(r) ==
    [kind |-> "invalid", remote |-> r.remote, method |-> "Invalid URI:",
     uri |-> <<>>, extra |-> <<"escape error">>]

\* the Server header left out
serverHeader_missing(h) == h

\* resp.Header().Set("Server", "web-share")
serverHeader(h) == Set(h, "Server", "web-share")

\* the no-cache headers without Expires
noCacheHeaders_noExpires(h) ==
    Set(Set(h, "Cache-Control", "no-cache, no-store, must-revalidate"),
        "Pragma", "no-cache")

\* the three headers that disable caching
noCacheHeaders(h) ==
    Set(Set(Set(h, "Cache-Control", "no-cache, no-store, must-revalidate"),
            "Pragma", "no-cache"),
        "Expires", "0")

\* isFavicon that looks at the path only, without the query string
isFavicon_pathOnly(uri) == pathPart(uri) = FaviconURI

\* the comparison made with the name of the file instead of the URI
isFavicon_noSlash(uri) == uri = Tail(FaviconURI)

\* if uri == "/favicon.ico"
isFavicon(uri) == uri = FaviconURI

\* the test with the exception for "bytes=0-" forgotten
logsRange_everyRange(rng) == rng # ""

\* if rng := req.Header.Get("Range"); len(rng) > 0 && rng != "bytes=0-"
logsRange(rng) == rng # "" /\ rng # "bytes=0-"

NotServed == [by |-> "none", path |-> <<>>]

\* The whole handler for one request: the response, the lines logged, and
\* the collaborator that produced the response
handler(r, e) ==
    LET h0  == serverHeader(NoHeaders)
        u   == unescaped[r.uri]
        uri == u.val
    IN
    IF ~u.ok THEN
        [resp |-> httpError(h0, "Invalid URI", 400),
         log |-> <<invalidLine(r)>>,
         served |-> NotServed]
    ELSE
        LET line == IF logsRange(r.range)
                    THEN requestLine(r, uri, <<r.range>>)
                    ELSE requestLine(r, uri, <<>>)
        IN
        IF isFavicon(uri) THEN
            [resp |-> ServeContent(Set(h0, "Content-Type", "image/x-icon"), r),
             log |-> <<line>>,
             served |-> [by |-> "icon", path |-> <<>>]]
        ELSE
            LET fs == FileServer(noCacheHeaders(h0), r, e) IN
            [resp |-> fs.resp,
             log |-> <<line>>,
             served |-> [by |-> "fileserver", path |-> fs.path]]

\* A handler that treats the unescape error as fatal: it answers 400 and then
\* ends the process the way the startup errors do
Handle_fatalBadURI ==
    /\ pc = "serving"
    /\ nreq < MaxRequests
    /\ \E r \in Requests :
         LET out == handler(r, env) IN
         /\ req' = r
         /\ resp' = out.resp
         /\ reqlog' = out.log
         /\ served' = out.served
         /\ IF out.resp.status = 400
            THEN die("Invalid URI", "", <<>>, NoErr, "handle")
            ELSE UNCHANGED <<pc, listener, exitCode, stderr, steps>>
    /\ nreq' = nreq + 1
    /\ UNCHANGED <<args, env, port, itf, dir, addr, root, inflight>>

\* One request arrives and the server calls the handler with it.  The
\* handler touches nothing but the response and the log.
Handle ==
    /\ pc = "serving"
    /\ nreq < MaxRequests
    /\ \E r \in Requests :
         LET out == handler(r, env) IN
         /\ req' = r
         /\ resp' = out.resp
         /\ reqlog' = out.log
         /\ served' = out.served
    /\ nreq' = nreq + 1
    /\ UNCHANGED <<args, env, pc, port, itf, dir, addr, root, listener,
                   exitCode, stderr, steps, inflight>>

----------------------------------------------------------------------------

Next ==
    \/ Parse
    \/ ValidatePort
    \/ CheckItf
    \/ FindIP
    \/ BuildAddr
    \/ ServeFrom
    \/ Run
    \/ ServeError
    \/ Handle

Spec == Init /\ [][Next]_vars

----------------------------------------------------------------------------
(* Concurrent requests: the HTTP server runs the handler on one goroutine  *)
(* per connection, so the statements of several invocations interleave.    *)
(* Each invocation has its own resp, req, uri and rng; root, the file      *)
(* server, favicon and faviconTS are shared and only read.                 *)

\* The requests of the concurrent runs
ConcRequests ==
    { r \in Requests :
        /\ r.method = "GET"
        /\ r.ims = 0
        /\ \/ r.uri = FaviconURI /\ r.range \in {"", "bytes=1-"}
           \/ r.uri = <<47>> /\ r.range \in {"", "bytes=1-"}
           \/ r.uri = FaviconURI \o <<63, 120>> /\ r.range = ""
           \/ r.uri = <<47, 97, 63, 37, 122, 122>> /\ r.range = "" }

\* requests accepted so far: handled or in progress
Accepted == nreq + Cardinality({s \in Slots : inflight[s].pc # "idle"})

concConfig == <<args, env, pc, port, itf, dir, addr, root, listener, exitCode,
                stderr, steps>>

\* the invocation on goroutine s returns: its response and log lines are out
Complete(s, out) ==
    /\ nreq' = nreq + 1
    /\ req' = inflight[s].req
    /\ resp' = out.resp
    /\ reqlog' = out.log
    /\ served' = out.served
    /\ inflight' = [inflight EXCEPT ![s] = IdleSlot]

\* the server calls the handler with a new request on a free goroutine
Accept(s) ==
    /\ pc = "serving"
    /\ inflight[s].pc = "idle"
    /\ Accepted < MaxRequests
    /\ \E r \in ConcRequests :
         inflight' = [inflight EXCEPT ![s] =
                         [pc |-> "header", req |-> r, headers |-> NoHeaders,
                          uri |-> <<>>, log |-> <<>>]]
    /\ UNCHANGED <<nreq, req, resp, reqlog, served>>
    /\ UNCHANGED concConfig

\* resp.Header().Set("Server", "web-share")
StepServerHeader(s) ==
    /\ pc = "serving"
    /\ inflight[s].pc = "header"
    /\ inflight' = [inflight EXCEPT ![s].headers = serverHeader(@),
                                    ![s].pc = "unescape"]
    /\ UNCHANGED <<nreq, req, resp, reqlog, served>>
    /\ UNCHANGED concConfig

\* The unescaped URI kept in a variable of the enclosing function, which all
\* invocations share: storing it overwrites what the others hold
StepUnescape_sharedURI(s) ==
    /\ pc = "serving"
    /\ inflight[s].pc = "unescape"
    /\ LET u == unescaped[inflight[s].req.uri] IN
       IF ~u.ok THEN
          /\ Complete(s, [resp |-> httpError(inflight[s].headers, "Invalid URI", 400),
                          log |-> <<invalidLine(inflight[s].req)>>,
                          served |-> NotServed])
       ELSE
          /\ inflight' = [t \in Slots |->
                            IF t = s THEN [inflight[t] EXCEPT !.uri = u.val, !.pc = "log"]
                            ELSE IF inflight[t].pc \in {"log", "serve"}
                                 THEN [inflight[t] EXCEPT !.uri = u.val]
                            ELSE inflight[t]]
          /\ UNCHANGED <<nreq, req, resp, reqlog, served>>
    /\ UNCHANGED concConfig

\* uri, err := url.QueryUnescape(req.RequestURI); on error answer 400, log
\* and return
StepUnescape(s) ==
    /\ pc = "serving"
    /\ inflight[s].pc = "unescape"
    /\ LET u == unescaped[inflight[s].req.uri] IN
       IF ~u.ok THEN
          /\ Complete(s, [resp |-> httpError(inflight[s].headers, "Invalid URI", 400),
                          log |-> <<invalidLine(inflight[s].req)>>,
                          served |-> NotServed])
       ELSE
          /\ inflight' = [inflight EXCEPT ![s].uri = u.val, ![s].pc = "log"]
          /\ UNCHANGED <<nreq, req, resp, reqlog, served>>
    /\ UNCHANGED concConfig

\* log the request, with the Range header or without
StepLog(s) ==
    /\ pc = "serving"
    /\ inflight[s].pc = "log"
    /\ LET r == inflight[s].req
           line == IF logsRange(r.range)
                   THEN requestLine(r, inflight[s].uri, <<r.range>>)
                   ELSE requestLine(r, inflight[s].uri, <<>>)
       IN inflight' = [inflight EXCEPT ![s].log = Append(@, line), ![s].pc = "serve"]
    /\ UNCHANGED <<nreq, req, resp, reqlog, served>>
    /\ UNCHANGED concConfig

\* serve: the embedded icon, or the file server after the no-cache headers
StepServe(s) ==
    /\ pc = "serving"
    /\ inflight[s].pc = "serve"
    /\ LET r == inflight[s].req
           h == inflight[s].headers
       IN
       IF isFavicon(inflight[s].uri) THEN
          Complete(s, [resp |-> ServeContent(Set(h, "Content-Type", "image/x-icon"), r),
                       log |-> inflight[s].log,
                       served |-> [by |-> "icon", path |-> <<>>]])
       ELSE
          LET fs == FileServer(noCacheHeaders(h), r, env) IN
          Complete(s, [resp |-> fs.resp,
                       log |-> inflight[s].log,
                       served |-> [by |-> "fileserver", path |-> fs.path]])
    /\ UNCHANGED concConfig

\* A command line that is valid, so that the server comes up
InitConc ==
    /\ Init
    /\ args.port.kind = "absent"
    /\ args.itf = "lo"
    /\ args.dir \in {"cwd", "pub"}

NextConc ==
    \/ Parse
    \/ ValidatePort
    \/ CheckItf
    \/ FindIP
    \/ BuildAddr
    \/ ServeFrom
    \/ Run
    \/ ServeError
    \/ \E s \in Slots : Accept(s)
    \/ \E s \in Slots : StepServerHeader(s)
    \/ \E s \in Slots : StepUnescape(s)
    \/ \E s \in Slots : StepLog(s)
    \/ \E s \in Slots : StepServe(s)

SpecConc == InitConc /\ [][NextConc]_vars

----------------------------------------------------------------------------
(* Properties of startup *)

\* the statements of main() in the order of the source; serveError is the
\* return of ListenAndServe after the listener was opened
StartupOrder ==
    <<"parse", "validatePort", "checkItf", "findIP", "buildAddr", "serveFrom",
      "run", "serveError">>

IsPrefix(s, t) == Len(s) <= Len(t) /\ \A i \in 1..Len(s) : s[i] = t[i]

\* the line written last to the error stream
LastLine == stderr[Len(stderr)]

\* main() has not got past the interface lookup
BeforeAddress == pc \in {"parse", "validatePort", "checkItf", "findIP", "exited"}

\* C1: when the -i flag names an interface the host does not have, main never
\* gets past the lookup: no address is built, run() is never reached, no
\* listener is opened, and once the process has exited its status is not 0.
C1_UnknownInterfaceFailsBeforeListen ==
    (args.itf # "" /\ args.itf \notin {"lo", "eth0", "eth1", "tun0", "sit0", "dummy0"}) =>
        /\ BeforeAddress
        /\ ~listener
        /\ addr = <<>>
        /\ pc = "exited" => (exitCode # 0 /\ exitCode # NoExit)

\* the lookup of an unknown interface has failed: findIP was the last step
C1_Witness ==
    /\ args.itf = "wlan9"
    /\ pc = "exited"
    /\ steps = <<"parse", "validatePort", "checkItf", "findIP">>
    /\ LastLine.msg = "Invalid interface name"
    /\ exitCode = 1
    /\ ~listener

\* C2: when the -p flag is 0 or a number above 65535, main gets no further
\* than the port validation, whatever the -i and -d flags are: it exits
\* with the message "Invalid port number", as the only line written, and
\* opens no listener.
C2_OutOfRangePortFails ==
    (args.port.kind = "uint" /\ (args.port.val = 0 \/ args.port.val > 65535)) =>
        /\ pc \in {"parse", "validatePort", "exited"}
        /\ ~listener
        /\ pc = "exited" =>
             /\ exitCode = 1
             /\ Len(stderr) = 1
             /\ LastLine.msg = "Invalid port number: "
             /\ steps = <<"parse", "validatePort">>

\* the port just above the range is refused although the interface and the
\* root directory are valid
C2_Witness ==
    /\ args.port = [kind |-> "uint", val |-> 65536]
    /\ args.itf = "lo"
    /\ args.dir = "pub"
    /\ pc = "exited"
    /\ LastLine.msg = "Invalid port number: "
    /\ LastLine.bytes = <<54, 53, 53, 51, 54>>

----------------------------------------------------------------------------
(* Properties of the handler *)

\* a request has been handled
Handled == nreq > 0

\* the request URI does not percent-decode: some '%' is not followed by two
\* hex digits
Undecodable(u) ==
    \E i \in 1..Len(u) :
        /\ u[i] = 37
        /\ \/ i + 2 > Len(u)
           \/ u[i + 1] \notin ((48..57) \cup (65..70) \cup (97..102))
           \/ u[i + 2] \notin ((48..57) \cup (65..70) \cup (97..102))

NoCachePresent(h) ==
    /\ h["Cache-Control"] = "no-cache, no-store, must-revalidate"
    /\ h["Pragma"] = "no-cache"
    /\ h["Expires"] = "0"

NoCacheAbsent(h) ==
    /\ h["Cache-Control"] = ""
    /\ h["Pragma"] = ""
    /\ h["Expires"] = ""

\* C4: handling a request whose URI does not percent-decode answers 400 and
\* changes nothing but the response and the log: the process is still
\* running with its listener open and its configuration (root, address,
\* port, files) as before, so a later request meets the server in the state
\* it would have met without the bad request.
C4_BadRequestAnswered400AndServerContinues ==
    [][(nreq' = nreq + 1 /\ Undecodable(req'.uri)) =>
          /\ resp'.status = 400
          /\ pc' = "serving"
          /\ listener'
          /\ exitCode' = NoExit
          /\ UNCHANGED <<args, env, port, itf, dir, addr, root, stderr, steps>>]_vars

\* the second request of a run was undecodable and the server still serves
C4_Witness ==
    /\ nreq = 2
    /\ Undecodable(req.uri)
    /\ resp.status = 400
    /\ pc = "serving"
    /\ listener

\* the exact URIs of the model that unescape to /favicon.ico
IconURIs == {FaviconURI, <<47, 37, 54, 54>> \o Tail(Tail(FaviconURI))}

\* the request line asks for the path /favicon.ico, with or without a query
\* string
AsksForFavicon(u) ==
    \/ u = FaviconURI
    \/ Len(u) > Len(FaviconURI) /\ SubSeq(u, 1, Len(FaviconURI) + 1) = FaviconURI \o <<63>>

C6_Original_NoCacheOnEveryNonIconResponse ==
    (Handled /\ served.by # "icon") => NoCachePresent(resp.headers)

\* C6 as amended: every response the handler delegates to the file server
\* carries the three no-cache headers; the 400 for an undecodable URI and the
\* embedded-icon response carry none of them.
C6_NoCacheOnDelegatedResponsesOnly ==
    Handled =>
        /\ served.by = "fileserver" => NoCachePresent(resp.headers)
        /\ served.by # "fileserver" => NoCacheAbsent(resp.headers)
        /\ Undecodable(req.uri) => (resp.status = 400 /\ served.by = "none")

\* a delegated response (a 404 here) carries the three headers
C6_Witness ==
    /\ Handled
    /\ served.by = "fileserver"
    /\ resp.status = 404
    /\ NoCachePresent(resp.headers)

\* C7: every response the handler writes (the 400 for an undecodable URI, the
\* embedded icon, a response of the file server) has Server: web-share.
C7_ServerHeaderOnEveryResponse ==
    Handled => resp.headers["Server"] = "web-share"

\* the 400 response, which leaves the handler first, has the header
C7_Witness ==
    /\ Handled
    /\ resp.status = 400
    /\ served.by = "none"
    /\ resp.headers["Server"] = "web-share"

\* the URI field of the request line logged for the last request
LoggedURI == reqlog[1].uri

\* C8: the request line shows an unescaped URI of more than 500 bytes as its
\* first 500 bytes followed by " ...", and a shorter one unchanged; the file
\* server still resolves the path of the whole URI, which is as long as the
\* unescaped URI when there is no query string.
C8_LongURITruncatedInLogOnly ==
    (Handled /\ ~Undecodable(req.uri)) =>
        LET u == unescaped[req.uri].val IN
        /\ Len(reqlog) = 1
        /\ reqlog[1].kind = "request"
        /\ Len(u) > 500 =>
             /\ Len(LoggedURI) = 504
             /\ SubSeq(LoggedURI, 1, 500) = SubSeq(u, 1, 500)
             /\ SubSeq(LoggedURI, 501, 504) = <<32, 46, 46, 46>>
        /\ Len(u) <= 500 => LoggedURI = u
        /\ served.by = "fileserver" =>
             /\ served.path = urlPath[req.uri].val
             /\ (\A i \in 1..Len(req.uri) : req.uri[i] \notin {43, 63}) => served.path = u

\* a URI of 501 bytes was logged cut and resolved whole
C8_Witness ==
    /\ Handled
    /\ Len(req.uri) = 501
    /\ Len(LoggedURI) = 504
    /\ served.by = "fileserver"
    /\ Len(served.path) = 501

----------------------------------------------------------------------------
(* Properties of the startup sequence and of its failures *)

\* C9 as claimed: every validation of the configuration, the one of the root
\* directory included, is complete when the interface has been resolved to an
\* address; the listener is open only after the address was resolved; no
\* step is taken twice.
C9_Original_ValidationBeforeResolution ==
    /\ addr # <<>> => root # ""
    /\ listener => addr # <<>>
    /\ \A i, j \in 1..Len(steps) : steps[i] = steps[j] => i = j

\* C9 as amended: startup is strictly linear in the order parse, validate
\* port, check that an interface was given, resolve the interface to an
\* address, build the bound address, validate the root directory, listen:
\* the root directory is validated after the address was resolved, the
\* listener is open only after all of these steps, and no step is repeated
\* or reordered.
C9_StartupIsLinear ==
    /\ IsPrefix(steps, StartupOrder)
    /\ root # "" => addr # <<>>
    /\ listener => (Len(steps) = 7 /\ addr # <<>> /\ root # "")
    /\ pc \notin {"serving", "exited"} => (Len(steps) < 7 /\ pc = StartupOrder[Len(steps) + 1])

\* the whole sequence has run and the server listens
C9_Witness ==
    /\ pc = "serving"
    /\ listener
    /\ steps = <<"parse", "validatePort", "checkItf", "findIP", "buildAddr", "serveFrom", "run">>

\* C10 as claimed: every failure of startup, an unparsable port included,
\* ends the process with exit code 1 after a line was written to the error
\* stream, with no listener left open and no step tried again.
C10_Original_EveryFailureExitsWithOne ==
    pc = "exited" =>
        /\ exitCode = 1
        /\ Len(stderr) >= 1
        /\ ~listener
        /\ \A i, j \in 1..Len(steps) : steps[i] = steps[j] => i = j

\* C10 as amended: every failure the program detects itself (invalid port,
\* missing, unknown or down interface, address list unavailable, no IPv4
\* address, invalid or inaccessible root directory, listener error) ends the
\* process with exit code 1; a port the flag parser cannot parse ends it
\* with exit code 2, before any validation.  In both cases the failing step
\* is the last one taken, its message is the last line on the error stream,
\* no step is tried again and no listener is left open.
C10_FailuresExitNonZeroWithMessage ==
    pc = "exited" =>
        /\ exitCode = (IF args.port.kind = "unparsable" THEN 2 ELSE 1)
        /\ args.port.kind = "unparsable" => steps = <<"parse">>
        /\ Len(stderr) >= 1
        /\ (LastLine.prefix = "ERROR: " \/ LastLine.err # "")
        /\ ~listener
        /\ \A i, j \in 1..Len(steps) : steps[i] = steps[j] => i = j

\* listening failed after a complete and valid configuration: exit code 1
C10_Witness ==
    /\ pc = "exited"
    /\ exitCode = 1
    /\ steps = <<"parse", "validatePort", "checkItf", "findIP", "buildAddr", "serveFrom", "run">>
    /\ LastLine.err = "listen error"
    /\ ~listener

----------------------------------------------------------------------------
(* Properties of the request log, of address resolution and of routing *)

\* C11: for a request whose URI decodes the handler logs exactly one line,
\* the request line, with the remote address, the method and the (cut) URI;
\* the value of the Range header is appended to it if and only if the header
\* is not empty and is not exactly bytes=0-.  For a request whose URI does
\* not decode it logs no request line, only the Invalid URI line.
C11_OneRequestLinePerDecodableRequest ==
    Handled =>
        /\ Len(reqlog) = 1
        /\ reqlog[1].remote = req.remote
        /\ IF Undecodable(req.uri) THEN
              /\ reqlog[1].kind = "invalid"
              /\ reqlog[1].method = "Invalid URI:"
           ELSE
              /\ reqlog[1].kind = "request"
              /\ reqlog[1].method = req.method
              /\ Len(reqlog[1].uri) <= 504
              /\ reqlog[1].uri = shortenURI(unescaped[req.uri].val)
              /\ (req.range \notin {"", "bytes=0-"}) <=> (reqlog[1].extra = <<req.range>>)
              /\ (req.range \in {"", "bytes=0-"}) <=> (reqlog[1].extra = <<>>)

\* a request for the whole resource as a range was logged without the header
C11_Witness ==
    /\ Handled
    /\ req.range = "bytes=0-"
    /\ reqlog[1].kind = "request"
    /\ reqlog[1].extra = <<>>

\* "127.0.0.1:8080"
LoAddr8080 == <<49, 50, 55, 46, 48, 46, 48, 46, 49, 58, 56, 48, 56, 48>>

\* "192.168.1.7"
Eth0IP == <<49, 57, 50, 46, 49, 54, 56, 46, 49, 46, 55>>

\* C12: startup fails in findIP when the interface name is unknown (wlan9),
\* the interface is down (eth1) or it has no IPv4 address (sit0, dummy0; also
\* tun0, whose address list cannot be read).  Otherwise the address is the
\* first IPv4 address in the order of the interface's address list, entries
\* before it that are not IPv4 being skipped (192.168.1.7 for eth0, not the
\* later 10.0.0.5), and the bound address is that address, ':' and the port.
C12_FirstIPv4AddressIsBound ==
    /\ args.itf \in {"wlan9", "eth1", "sit0", "dummy0", "tun0"} =>
         /\ BeforeAddress
         /\ addr = <<>>
         /\ (pc = "exited" /\ Len(steps) = 4) => (steps[4] = "findIP" /\ exitCode = 1)
    /\ (args.itf = "eth0" /\ pc = "buildAddr") => addr = Eth0IP
    /\ (args.itf = "lo" /\ pc = "buildAddr") => addr = <<49, 50, 55, 46, 48, 46, 48, 46, 49>>
    /\ (args.itf = "eth0" /\ port = 65535 /\ pc \in {"serveFrom", "run", "serving"}) =>
         addr = Eth0IP \o <<58, 54, 53, 53, 51, 53>>
    /\ (args.itf = "eth0" /\ port = 8080 /\ pc \in {"serveFrom", "run", "serving"}) =>
         addr = Eth0IP \o <<58, 56, 48, 56, 48>>
    /\ (args.itf = "lo" /\ port = 8080 /\ pc \in {"serveFrom", "run", "serving"}) =>
         addr = LoAddr8080
    /\ pc \in {"buildAddr", "serveFrom", "run", "serving"} => args.itf \in {"lo", "eth0"}

\* eth0, whose list starts with entries that are not IPv4, listens on its
\* first IPv4 address
C12_Witness ==
    /\ args.itf = "eth0"
    /\ pc = "serving"
    /\ listener
    /\ addr = Eth0IP \o <<58, 56, 48, 56, 48>>

\* C14: the handler routes a request whose URI decodes to exactly one of two
\* outcomes by comparing the whole unescaped URI, query string included, with
\* /favicon.ico: an exact match is answered from the embedded icon, without
\* any no-cache header; every other URI, /favicon.ico followed by a query
\* string included, goes to the file server with the three no-cache headers.
\* A request whose URI does not decode reaches neither.
C14_RoutingByWholeUnescapedURI ==
    Handled =>
        /\ served.by \in {"none", "icon", "fileserver"}
        /\ Undecodable(req.uri) <=> served.by = "none"
        /\ req.uri \in IconURIs <=> served.by = "icon"
        /\ served.by = "icon" =>
             (NoCacheAbsent(resp.headers) /\ resp.body # "file" /\ served.path = <<>>)
        /\ served.by = "fileserver" =>
             (NoCachePresent(resp.headers) /\ resp.body # "favicon" /\ served.path # <<>>)
        /\ (AsksForFavicon(req.uri) /\ req.uri # FaviconURI /\ ~Undecodable(req.uri)) =>
             (served.by = "fileserver" /\ served.path = FaviconURI)

\* /favicon.ico?x went to the file server, which found the real file
C14_Witness ==
    /\ Handled
    /\ req.uri = FaviconURI \o <<63, 120>>
    /\ served.by = "fileserver"
    /\ served.path = FaviconURI
    /\ resp.status = 200
    /\ resp.body = "file"
    /\ NoCachePresent(resp.headers)

----------------------------------------------------------------------------
(* Properties of concurrent requests *)

\* C13: the handler only reads the application state: while the server
\* serves, no step of any invocation changes the root directory, the bound
\* address, the port or the files, and under every interleaving of the
\* statements of concurrent invocations each request that completes has the
\* response, the log line and the collaborator it gets when handled alone.
C13_HandlerIsPureUnderInterleaving ==
    /\ [](Handled =>
            /\ resp = handler(req, env).resp
            /\ reqlog = handler(req, env).log
            /\ served = handler(req, env).served)
    /\ [][(pc = "serving" /\ pc' = "serving") =>
            UNCHANGED <<args, env, port, itf, dir, addr, root, stderr, steps>>]_vars

\* a request has completed while another one with a different URI was past
\* its unescape step: their statements were interleaved
C13_Witness ==
    /\ Handled
    /\ served.by = "icon"
    /\ resp.status = 200
    /\ \E s \in Slots :
         /\ inflight[s].pc \in {"log", "serve"}
         /\ inflight[s].req.uri = <<47>>
         /\ inflight[s].uri = <<47>>

====
